---- MODULE Spec2Model ----
(***************************************************************************)
(* TracPoll (src/index.js): the poll store, the sidechannel dispatcher,    *)
(* the create / vote / close handlers, the tally and the commit sequence   *)
(* of an accepted close (contractPut meta, contractPut result,             *)
(* sendSidechannel), modelled as a state machine.                          *)
(*                                                                         *)
(* Left out: the timestamps (meta.created_at, meta.closes_at,              *)
(* result.closed_at); no handler reads them back.  A JSON text is          *)
(* represented by the record of the members JSON.stringify writes.         *)
(***************************************************************************)
EXTENDS Integers, Sequences, FiniteSets, TLC

\* ------------------------------------------------------------------ bounds

\* Number of sidechannel messages the transport delivers in one behaviour.
MaxEvents == 4

\* ------------------------------------------------------- program constants

\* index.js:62  options.length < 2
MinOptions == 2

\* README "Create a poll with up to 8 options"
MaxOptionsDoc == 8

\* ------------------------------------------------------------------ inputs

AttachedChannel == "tracpoll-votes"

Channels == {AttachedChannel, "other-channel"}

PollIds == {"p1", "p2"}

HexDigits == <<"0", "1", "2", "3", "4", "5", "6", "7",
               "8", "9", "a", "b", "c", "d", "e", "f">>

\* Buffer.toString('hex') of a one-byte Buffer
ToHex(byte) == HexDigits[(byte \div 16) + 1] \o HexDigits[(byte % 16) + 1]

BufferKey(b) == [isBuffer |-> TRUE, byte |-> b, str |-> ""]

StringKey(s) == [isBuffer |-> FALSE, byte |-> 0, str |-> s]

\* senderKey as the transport attaches it: one peer's key is the string "01",
\* the other's is the one-byte Buffer 0x02
SenderKeys == {StringKey("01"), BufferKey(2)}

SenderHexOf(senderKey) ==
    IF senderKey.isBuffer THEN ToHex(senderKey.byte) ELSE senderKey.str

OptionNames == <<"A", "B", "C", "D", "E", "F", "G", "H", "I", "J">>

ArrayOf(n) == [isArray |-> TRUE, items |-> [i \in 1..n |-> OptionNames[i]]]

\* a value with a length that is no Array (the string "AB")
NotAnArray == [isArray |-> FALSE, items |-> <<"A", "B">>]

CreatePayload(id, question, options) ==
    [type |-> "poll:create", id |-> id, question |-> question, options |-> options]

\* creates with 2, 8 and 9 options: two different polls for either id
LongCreates ==
    {CreatePayload(i, "Q1", ArrayOf(MinOptions)) : i \in PollIds}
    \cup {CreatePayload("p1", "Q2", ArrayOf(MaxOptionsDoc)),
          CreatePayload("p2", "Q2", ArrayOf(MaxOptionsDoc + 1))}

\* creates with one option, no option, no Array, no question, no id
ShortCreates ==
    {CreatePayload("p1", "Q1", ArrayOf(MinOptions - 1)),
     CreatePayload("p1", "Q1", ArrayOf(0)),
     CreatePayload("p2", "Q1", NotAnArray),
     CreatePayload("p2", "", ArrayOf(MinOptions)),
     CreatePayload("", "Q1", ArrayOf(MinOptions))}

\* A JavaScript value given as option_index: a number held in half units
\* (twice = 2 * value, so 0.5 is twice = 1), or a string of digits.
Num(twice) == [isNumber |-> TRUE, twice |-> twice]

StringValue(twice) == [isNumber |-> FALSE, twice |-> twice]

\* -1, 0, 0.5, 1, 2 and the string "0"
OptionIndexInputs ==
    {Num(t) : t \in {-2, 0, 1, 2, 4}} \cup {StringValue(0)}

\* Number.isInteger(v)
IsInteger(v) == v.isNumber /\ v.twice % 2 = 0

\* v < n and v >= n of JavaScript, n an integer
LessThan(v, n) == v.twice < 2 * n

AtLeast(v, n) == v.twice >= 2 * n

CreatePayloads == LongCreates \cup ShortCreates

VotePayloads ==
    {[type |-> "poll:vote", poll_id |-> i, option_index |-> v] :
        i \in PollIds, v \in OptionIndexInputs}

ClosePayloads == {[type |-> "poll:close", poll_id |-> i] : i \in PollIds}

\* a peer's own poll:result announcement, a payload without type, no payload
NullPayload == [isNull |-> TRUE]

OtherPayloads ==
    {[type |-> "poll:result", poll_id |-> "p1"],
     [type |-> "", poll_id |-> "p1"],
     [poll_id |-> "p1"],
     NullPayload}

\* what is delivered on a channel TracPoll is not attached to
OtherChannelPayloads ==
    {CreatePayload("p1", "Q1", ArrayOf(MinOptions)),
     [type |-> "poll:vote", poll_id |-> "p1", option_index |-> Num(0)],
     [type |-> "poll:close", poll_id |-> "p1"]}

\* ------------------------------------------------------------------- state

VARIABLES
    polls,      \* this.polls: Map pollId -> { meta, votes, closed [, result] }
    peer,       \* which of contractPut / sendSidechannel the attached peer has
    tasks,      \* _onClose calls suspended at an await, in the order they began
    puts,       \* the peer.contractPut(key, value) calls made, in order
    store,      \* the replicated state: key -> value of the puts that succeeded
    outbox,     \* the peer.sendSidechannel(channel, message) calls made, in order
    errors,     \* number of rejections the .catch of attach has logged
    unhandled,  \* whether a rejection reached the event loop with no handler
    console,    \* the last console line written
    delivered,  \* number of sidechannel messages delivered so far
    returned    \* what the last call made by the host returned

vars == <<polls, peer, tasks, puts, store, outbox, errors, unhandled, console, delivered,
          returned>>

EmptyMap == [x \in {} |-> 0]

\* the values undefined and null
Undefined == [isUndefined |-> TRUE]

Null == [isNull |-> TRUE]

MapSet(map, key, value) ==
    [x \in DOMAIN map \cup {key} |-> IF x = key THEN value ELSE map[x]]

Has(map, key) == key \in DOMAIN map

\* a key that leaves out the poll id
PutKey_Shared(poll_id, suffix) == "polls/" \o suffix

PutKey(poll_id, suffix) == "polls/" \o poll_id \o "/" \o suffix

Init ==
    /\ polls = EmptyMap
    /\ peer \in [hasContractPut : BOOLEAN, hasSendSidechannel : BOOLEAN]
    /\ tasks = <<>>
    /\ puts = <<>>
    /\ store = EmptyMap
    /\ outbox = <<>>
    /\ errors = 0
    /\ unhandled = FALSE
    /\ console = "attached"
    /\ delivered = 0
    /\ returned = Undefined

\* ------------------------------------------------------------ poll:create

\* index.js:62  !id || !question || !Array.isArray(options) || options.length < 2
CreateInvalid(payload) ==
    \/ payload.id = ""
    \/ payload.question = ""
    \/ ~payload.options.isArray
    \/ Len(payload.options.items) < MinOptions

\* a create that never finds its id taken
CreateDuplicate_Never(id) == FALSE

\* index.js:66  this.polls.has(id)
CreateDuplicate(id) == Has(polls, id)

\* a record that starts with its creator's vote for the first option
NewPoll_CreatorVotes(payload, senderHex) ==
    [meta |-> [question |-> payload.question,
               options |-> payload.options.items,
               creator |-> senderHex],
     votes |-> MapSet(EmptyMap, senderHex, Num(0)),
     closed |-> FALSE]

\* index.js:71-81  the record a create inserts
NewPoll(payload, senderHex) ==
    [meta |-> [question |-> payload.question,
               options |-> payload.options.items,
               creator |-> senderHex],
     votes |-> EmptyMap,
     closed |-> FALSE]

OnCreate(payload, senderHex) ==
    /\ IF CreateInvalid(payload)
         THEN console' = "create:invalid" /\ UNCHANGED polls
       ELSE IF CreateDuplicate(payload.id)
         THEN console' = "create:exists" /\ UNCHANGED polls
       ELSE /\ polls' = MapSet(polls, payload.id, NewPoll(payload, senderHex))
            /\ console' = "create:ok"
    /\ UNCHANGED <<tasks, puts, store, outbox, errors, unhandled>>

\* -------------------------------------------------------------- poll:vote

\* index.js:90  !poll
UnknownPoll(poll_id) == ~Has(polls, poll_id)

\* a vote handler without the closed test
VoteAfterClose_Never(poll) == FALSE

\* index.js:94  poll.closed
VoteAfterClose(poll) == poll.closed

\* index.js:98  typeof option_index !== 'number' || option_index < 0
\*              || option_index >= poll.meta.options.length
InvalidOptionIndex(option_index, poll) ==
    \/ ~option_index.isNumber
    \/ LessThan(option_index, 0)
    \/ AtLeast(option_index, Len(poll.meta.options))

\* a vote handler without the duplicate test
AlreadyVoted_Never(poll, senderHex) == FALSE

\* index.js:102  poll.votes.has(senderHex)
AlreadyVoted(poll, senderHex) == Has(poll.votes, senderHex)

\* index.js:107  poll.votes.set(senderHex, option_index)
RecordVote(poll, senderHex, option_index) ==
    [poll EXCEPT !.votes = MapSet(@, senderHex, option_index)]

OnVote(payload, senderHex) ==
    /\ IF UnknownPoll(payload.poll_id)
         THEN console' = "vote:unknown" /\ UNCHANGED polls
       ELSE IF VoteAfterClose(polls[payload.poll_id])
         THEN console' = "vote:closed" /\ UNCHANGED polls
       ELSE IF InvalidOptionIndex(payload.option_index, polls[payload.poll_id])
         THEN console' = "vote:invalid" /\ UNCHANGED polls
       ELSE IF AlreadyVoted(polls[payload.poll_id], senderHex)
         THEN console' = "vote:duplicate" /\ UNCHANGED polls
       ELSE /\ polls' = [polls EXCEPT ![payload.poll_id] =
                            RecordVote(@, senderHex, payload.option_index)]
            /\ console' = "vote:ok"
    /\ UNCHANGED <<tasks, puts, store, outbox, errors, unhandled>>

\* ------------------------------------------------------------------ tally

\* whether tallies[v] names element v of an array of length n
IsArrayIndex(v, n) == IsInteger(v) /\ ~LessThan(v, 0) /\ ~AtLeast(v, n)

\* index.js:125  new Array(options.length).fill(0); props are the members set
\* under a key that is no element of the array (their value is NaN)
ZeroTallies(n) == [arr |-> [i \in 1..n |-> 0], props |-> {}]

\* index.js:127  tallies[optIdx]++
Increment(tallies, optIdx) ==
    IF IsArrayIndex(optIdx, Len(tallies.arr))
      THEN [tallies EXCEPT !.arr[(optIdx.twice \div 2) + 1] = @ + 1]
      ELSE [tallies EXCEPT !.props = @ \cup {optIdx}]

RECURSIVE TallyLoop(_, _, _)
\* index.js:126-128  for (const optIdx of poll.votes.values()) tallies[optIdx]++
TallyLoop(votes, voters, tallies) ==
    IF voters = {} THEN tallies
    ELSE LET s == CHOOSE x \in voters : TRUE
         IN TallyLoop(votes, voters \ {s}, Increment(tallies, votes[s]))

Tally(poll) == TallyLoop(poll.votes, DOMAIN poll.votes, ZeroTallies(Len(poll.meta.options)))

RECURSIVE MaxFrom(_, _, _)
\* Math.max(...arr), scanning from element i with the maximum so far
MaxFrom(arr, i, best) ==
    IF i > Len(arr) THEN best
    ELSE MaxFrom(arr, i + 1, IF arr[i] > best THEN arr[i] ELSE best)

MathMax(arr) == MaxFrom(arr, 2, arr[1])

RECURSIVE IndexFrom(_, _, _)
\* Array.prototype.indexOf: the first index (from 0) holding x, or -1
IndexFrom(arr, x, i) ==
    IF i > Len(arr) THEN -1
    ELSE IF arr[i] = x THEN i - 1
    ELSE IndexFrom(arr, x, i + 1)

IndexOf(arr, x) == IndexFrom(arr, x, 1)

RECURSIVE LastIndexFrom(_, _, _)
LastIndexFrom(arr, x, i) ==
    IF i < 1 THEN -1
    ELSE IF arr[i] = x THEN i - 1
    ELSE LastIndexFrom(arr, x, i - 1)

\* tallies.lastIndexOf in place of tallies.indexOf
WinnerIndex_Last(arr) == LastIndexFrom(arr, MathMax(arr), Len(arr))

\* index.js:134  tallies.indexOf(Math.max(...tallies))
WinnerIndex(arr) == IndexOf(arr, MathMax(arr))

\* index.js:130-136
ComputeResult(poll) ==
    LET tallies == Tally(poll)
        w == WinnerIndex(tallies.arr)
    IN [tallies |-> tallies,
        total_votes |-> Cardinality(DOMAIN poll.votes),
        winner_index |-> w,
        winner_option |-> poll.meta.options[w + 1]]

\* ------------------------------------------------------------- poll:close

\* a close handler without the closed test
AlreadyClosed_Never(poll) == FALSE

\* index.js:119  poll.closed
AlreadyClosed(poll) == poll.closed

\* a close that leaves the record as it is until the commit is through
CloseLocally_Deferred(poll, result) == poll

\* a close that sets the flag and attaches no result
CloseLocally_NoResult(poll, result) == [poll EXCEPT !.closed = TRUE]

\* index.js:138-139  poll.closed = true; poll.result = result
CloseLocally(poll, result) ==
    [meta |-> poll.meta, votes |-> poll.votes, closed |-> TRUE, result |-> result]

\* index.js:151  JSON.stringify({ question, options, created_at })
MetaJson(poll) == [question |-> poll.meta.question, options |-> poll.meta.options]

\* index.js:155  JSON.stringify(result): of an array only the elements are written
ResultJson(result) ==
    [tallies |-> result.tallies.arr,
     total_votes |-> result.total_votes,
     winner_index |-> result.winner_index,
     winner_option |-> result.winner_option]

\* index.js:164-170  the announcement sent on this.channel
ResultMessage(poll_id, poll, result) ==
    [channel |-> AttachedChannel,
     type |-> "poll:result",
     poll_id |-> poll_id,
     question |-> poll.meta.question,
     options |-> poll.meta.options,
     result |-> result]

PutCall(key, value) == [key |-> key, value |-> value]

\* an _onClose call suspended at the await of line 149 ("meta"), 153
\* ("result") or 164 ("send"), with its locals poll_id and result
Task(poll_id, result, at) == [poll_id |-> poll_id, result |-> result, at |-> at]

RemoveAt(seq, i) == [j \in 1..(Len(seq) - 1) |-> IF j < i THEN seq[j] ELSE seq[j + 1]]

\* index.js:162-171  the broadcast, reached from line 157 or line 159: the
\* list `rest` (the other suspended calls) gains this call if it suspends
Broadcast(poll_id, poll, result, rest) ==
    IF peer.hasSendSidechannel
      THEN /\ outbox' = Append(outbox, ResultMessage(poll_id, poll, result))
           /\ tasks' = Append(rest, Task(poll_id, result, "send"))
      ELSE /\ tasks' = rest
           /\ UNCHANGED outbox

OnClose(payload, senderHex) ==
    IF UnknownPoll(payload.poll_id)
      THEN /\ console' = "close:unknown"
           /\ UNCHANGED <<polls, tasks, puts, store, outbox, errors, unhandled>>
    ELSE IF AlreadyClosed(polls[payload.poll_id])
      THEN /\ console' = "close:already"
           /\ UNCHANGED <<polls, tasks, puts, store, outbox, errors, unhandled>>
    ELSE LET poll == polls[payload.poll_id]
             result == ComputeResult(poll)
         IN /\ polls' = [polls EXCEPT ![payload.poll_id] = CloseLocally(poll, result)]
            /\ IF peer.hasContractPut
                 THEN /\ puts' = Append(puts, PutCall(PutKey(payload.poll_id, "meta"),
                                                      MetaJson(poll)))
                      /\ tasks' = Append(tasks, Task(payload.poll_id, result, "meta"))
                      /\ console' = "close:result"
                      /\ UNCHANGED outbox
                 ELSE /\ console' = "close:memory-only"
                      /\ Broadcast(payload.poll_id, poll, result, tasks)
                      /\ UNCHANGED puts
            /\ UNCHANGED <<store, errors, unhandled>>

\* --------------------------------------------------------------- dispatch

\* index.js:43  !payload || !payload.type
NoType(payload) ==
    \/ "isNull" \in DOMAIN payload
    \/ "type" \notin DOMAIN payload
    \/ payload.type = ""

\* index.js:42-58
HandleMessage(payload, senderKey) ==
    IF NoType(payload)
      THEN UNCHANGED <<console, polls, tasks, puts, store, outbox, errors, unhandled>>
    ELSE IF payload.type = "poll:create" THEN OnCreate(payload, SenderHexOf(senderKey))
    ELSE IF payload.type = "poll:vote" THEN OnVote(payload, SenderHexOf(senderKey))
    ELSE IF payload.type = "poll:close" THEN OnClose(payload, SenderHexOf(senderKey))
    ELSE UNCHANGED <<console, polls, tasks, puts, store, outbox, errors, unhandled>>

\* a listener that handles no message while a close is suspended
Listener_OneAtATime(ch, payload, senderKey) ==
    IF ch # AttachedChannel \/ tasks # <<>>
      THEN UNCHANGED <<console, polls, tasks, puts, store, outbox, errors, unhandled>>
      ELSE HandleMessage(payload, senderKey)

\* a listener without the channel test of line 33
Listener_AnyChannel(ch, payload, senderKey) == HandleMessage(payload, senderKey)

\* index.js:32-37  the 'sidechannel:message' listener, up to the first await
Listener(ch, payload, senderKey) ==
    IF ch # AttachedChannel
      THEN UNCHANGED <<console, polls, tasks, puts, store, outbox, errors, unhandled>>
      ELSE HandleMessage(payload, senderKey)

\* the transport delivers one more message
Delivery ==
    /\ delivered < MaxEvents
    /\ delivered' = delivered + 1
    /\ returned' = Undefined
    /\ UNCHANGED peer

DeliverCreate ==
    /\ Delivery
    /\ \E payload \in CreatePayloads, senderKey \in SenderKeys :
           Listener(AttachedChannel, payload, senderKey)

DeliverVote ==
    /\ Delivery
    /\ \E payload \in VotePayloads, senderKey \in SenderKeys :
           Listener(AttachedChannel, payload, senderKey)

DeliverClose ==
    /\ Delivery
    /\ \E payload \in ClosePayloads, senderKey \in SenderKeys :
           Listener(AttachedChannel, payload, senderKey)

DeliverOther ==
    /\ Delivery
    /\ \E payload \in OtherPayloads, senderKey \in SenderKeys :
           Listener(AttachedChannel, payload, senderKey)

DeliverOnOtherChannel ==
    /\ Delivery
    /\ \E ch \in Channels \ {AttachedChannel}, payload \in OtherChannelPayloads, senderKey \in SenderKeys :
           Listener(ch, payload, senderKey)

\* ------------------------------------------------- the awaits of _onClose

\* index.js:149-153  the meta put resolves: the result put is called
MetaPutResolves(i) ==
    /\ tasks[i].at = "meta"
    /\ LET t == tasks[i]
           poll == polls[t.poll_id]
       IN /\ store' = MapSet(store, PutKey(t.poll_id, "meta"), MetaJson(poll))
          /\ puts' = Append(puts, PutCall(PutKey(t.poll_id, "result"), ResultJson(t.result)))
          /\ tasks' = [tasks EXCEPT ![i] = Task(t.poll_id, t.result, "result")]
    /\ UNCHANGED <<polls, peer, outbox, errors, unhandled, console, delivered, returned>>

\* a commit that returns after the result put, with no broadcast
ResultPutResolves_Silent(i) ==
    /\ tasks[i].at = "result"
    /\ store' = MapSet(store, PutKey(tasks[i].poll_id, "result"), ResultJson(tasks[i].result))
    /\ console' = "close:committed"
    /\ tasks' = RemoveAt(tasks, i)
    /\ UNCHANGED <<polls, peer, puts, outbox, errors, unhandled, delivered, returned>>

\* index.js:153-171  the result put resolves: line 157, then the broadcast
ResultPutResolves(i) ==
    /\ tasks[i].at = "result"
    /\ LET t == tasks[i]
       IN /\ store' = MapSet(store, PutKey(t.poll_id, "result"), ResultJson(t.result))
          /\ console' = "close:committed"
          /\ Broadcast(t.poll_id, polls[t.poll_id], t.result, RemoveAt(tasks, i))
    /\ UNCHANGED <<polls, peer, puts, errors, unhandled, delivered, returned>>

\* a close that marks the record once its broadcast has been sent
SendResolves_MarksRecord(i) ==
    /\ tasks[i].at = "send"
    /\ tasks' = RemoveAt(tasks, i)
    /\ polls' = [polls EXCEPT ![tasks[i].poll_id] =
                    [meta |-> @.meta, votes |-> @.votes, closed |-> @.closed,
                     result |-> @.result, announced |-> TRUE]]
    /\ UNCHANGED <<peer, puts, store, outbox, errors, unhandled, console, delivered, returned>>

\* index.js:164-172  the send resolves: _onClose returns
SendResolves(i) ==
    /\ tasks[i].at = "send"
    /\ tasks' = RemoveAt(tasks, i)
    /\ UNCHANGED <<polls, peer, puts, store, outbox, errors, unhandled, console, delivered, returned>>

\* a listener that drops the promise of _handleMessage
Caught_Missing == FALSE

\* index.js:34  this._handleMessage(payload, senderKey).catch(...)
Caught == TRUE

\* a rejected await after which the result is announced all the same
AwaitRejects_StillSends(i) ==
    /\ tasks' = RemoveAt(tasks, i)
    /\ outbox' = Append(outbox, ResultMessage(tasks[i].poll_id, polls[tasks[i].poll_id],
                                              tasks[i].result))
    /\ errors' = errors + 1
    /\ console' = "handler error"
    /\ UNCHANGED <<polls, peer, puts, store, unhandled, delivered, returned>>

\* a rejection that reopens the poll whose commit failed
AwaitRejects_Reopens(i) ==
    /\ tasks' = RemoveAt(tasks, i)
    /\ polls' = [polls EXCEPT ![tasks[i].poll_id].closed = FALSE]
    /\ errors' = errors + 1
    /\ console' = "handler error"
    /\ UNCHANGED <<peer, puts, store, outbox, unhandled, delivered, returned>>

\* index.js:34-36  an awaited call rejects: _onClose and _handleMessage reject,
\* the .catch logs the error
AwaitRejects(i) ==
    /\ tasks' = RemoveAt(tasks, i)
    /\ IF Caught
         THEN /\ errors' = errors + 1
              /\ console' = "handler error"
              /\ UNCHANGED unhandled
         ELSE /\ unhandled' = TRUE
              /\ UNCHANGED <<errors, console>>
    /\ UNCHANGED <<polls, peer, puts, store, outbox, delivered, returned>>

Complete ==
    \E i \in 1..Len(tasks) :
        \/ MetaPutResolves(i)
        \/ ResultPutResolves(i)
        \/ SendResolves(i)
        \/ AwaitRejects(i)

Next ==
    \/ DeliverCreate
    \/ DeliverVote
    \/ DeliverClose
    \/ DeliverOther
    \/ DeliverOnOtherChannel
    \/ Complete

Spec == Init /\ [][Next]_vars

\* ---------------------------------------------------- runs without faults

\* the put or the send an _onClose call awaits resolves
Resolve ==
    \E i \in 1..Len(tasks) :
        \/ MetaPutResolves(i)
        \/ ResultPutResolves(i)
        \/ SendResolves(i)

NextNoFault ==
    \/ DeliverCreate
    \/ DeliverVote
    \/ DeliverClose
    \/ DeliverOther
    \/ DeliverOnOtherChannel
    \/ Resolve

\* no contractPut and no sendSidechannel call rejects, and each of them
\* settles: the event loop runs the continuation of a resolved await
SpecNoFault == Init /\ [][NextNoFault]_vars /\ WF_vars(Resolve)

\* ------------------------------------------------------ the query surface

\* a getPoll that tallies the votes of a poll whether it is closed or not
GetPoll_LiveTally(pollId) ==
    IF ~Has(polls, pollId)
      THEN Null
      ELSE LET poll == polls[pollId]
           IN [meta |-> poll.meta,
               total_votes |-> Cardinality(DOMAIN poll.votes),
               closed |-> poll.closed,
               result |-> ComputeResult(poll)]

\* index.js:179-188
GetPoll(pollId) ==
    IF ~Has(polls, pollId)
      THEN Null
      ELSE LET poll == polls[pollId]
           IN [meta |-> poll.meta,
               total_votes |-> Cardinality(DOMAIN poll.votes),
               closed |-> poll.closed,
               result |-> IF "result" \in DOMAIN poll THEN poll.result ELSE Null]

\* index.js:194-196  the keys of this.polls
ListPolls == DOMAIN polls

\* the host calls getPoll(pollId)
CallGetPoll ==
    /\ \E pollId \in PollIds :
           returned' = [call |-> "getPoll", pollId |-> pollId, value |-> GetPoll(pollId)]
    /\ UNCHANGED <<polls, peer, tasks, puts, store, outbox, errors, unhandled, console, delivered>>

\* the host calls listPolls()
CallListPolls ==
    /\ returned' = [call |-> "listPolls", value |-> ListPolls]
    /\ UNCHANGED <<polls, peer, tasks, puts, store, outbox, errors, unhandled, console, delivered>>

NextWithQueries ==
    \/ Next
    \/ CallGetPoll
    \/ CallListPolls

SpecWithQueries == Init /\ [][NextWithQueries]_vars

\* ------------------------------------------------------------ properties

\* the step in which the listener handles this message on the attached channel
StepOf(payload, senderKey) ==
    Delivery /\ Listener(AttachedChannel, payload, senderKey)

\* what a handler may change besides the console line
Effects == <<polls, tasks, puts, store, outbox, errors, unhandled>>

RECURSIVE SumFrom(_, _)
SumFrom(arr, i) == IF i > Len(arr) THEN 0 ELSE arr[i] + SumFrom(arr, i + 1)

\* number of voters of a poll whose recorded option is the integer index i
VotersOf(poll, i) == Cardinality({s \in DOMAIN poll.votes : poll.votes[s] = Num(2 * i)})

PutCount(key) == Cardinality({n \in 1..Len(puts) : puts[n].key = key})

SentCount(poll_id) == Cardinality({n \in 1..Len(outbox) : outbox[n].poll_id = poll_id})

HasResult(poll_id) ==
    /\ Has(polls, poll_id)
    /\ polls[poll_id].closed
    /\ "result" \in DOMAIN polls[poll_id]

\* C1: a poll:vote from a sender that is already a key of the poll's votes
\* changes nothing of the poll store (a step that changes the poll store is
\* not the handling of such a vote), and no step ever removes a voter or
\* changes the option recorded for one: it stays that of the first accepted vote.
C1_ExactlyOnceVote ==
    [][ /\ \A id \in DOMAIN polls : \A s \in DOMAIN polls[id].votes :
              /\ id \in DOMAIN polls'
              /\ s \in DOMAIN polls'[id].votes
              /\ polls'[id].votes[s] = polls[id].votes[s]
        /\ polls' # polls =>
              \A payload \in VotePayloads, senderKey \in SenderKeys :
                 ( /\ Has(polls, payload.poll_id)
                   /\ Has(polls[payload.poll_id].votes, SenderHexOf(senderKey)) )
                 => ~StepOf(payload, senderKey)
      ]_vars

\* a second vote of a voter was delivered to an open poll and dropped
C1_Witness ==
    /\ console = "vote:duplicate"
    /\ \E id \in DOMAIN polls : ~polls[id].closed /\ DOMAIN polls[id].votes # {}

\* C2: in every closed poll result.tallies is as long as options, tallies[i]
\* is the number of voters whose recorded option is i, and the tallies sum to
\* result.total_votes, the number of voters.
C2_TallyCorrect ==
    \A id \in DOMAIN polls : polls[id].closed =>
        LET poll == polls[id]
            arr == poll.result.tallies.arr
        IN /\ Len(arr) = Len(poll.meta.options)
           /\ \A i \in 1..Len(arr) : arr[i] = VotersOf(poll, i - 1)
           /\ SumFrom(arr, 1) = poll.result.total_votes
           /\ poll.result.total_votes = Cardinality(DOMAIN poll.votes)

\* C3: in every closed poll winner_index is the smallest index holding the
\* maximum of tallies (0 when nobody voted) and winner_option is the option
\* at that index.
C3_DeterministicWinner ==
    \A id \in DOMAIN polls : polls[id].closed =>
        LET poll == polls[id]
            arr == poll.result.tallies.arr
            w == poll.result.winner_index
        IN /\ w \in 0..(Len(arr) - 1)
           /\ \A j \in 1..Len(arr) : arr[j] <= arr[w + 1]
           /\ \A j \in 1..w : arr[j] < arr[w + 1]
           /\ poll.result.winner_option = poll.meta.options[w + 1]
           /\ (DOMAIN poll.votes = {} => w = 0)

\* a poll closed on a tie between its second and a later option: the second wins
C3_Witness ==
    \E id \in DOMAIN polls :
        /\ polls[id].closed
        /\ Len(polls[id].result.tallies.arr) > 2
        /\ polls[id].result.tallies.arr[1] = 0
        /\ polls[id].result.tallies.arr[2] = 1
        /\ polls[id].result.tallies.arr[3] = 1
        /\ polls[id].result.winner_index = 1

\* C4: a poll:close for a closed poll changes no record and makes no
\* contractPut and no sendSidechannel call, also while the first close is
\* suspended; so each poll sees at most one meta put, one result put and
\* one broadcast.
C4_IdempotentClose ==
    /\ [](\A id \in PollIds :
              /\ PutCount(PutKey(id, "meta")) <= 1
              /\ PutCount(PutKey(id, "result")) <= 1
              /\ SentCount(id) <= 1)
    /\ [][ \A payload \in ClosePayloads, senderKey \in SenderKeys :
              ( /\ Has(polls, payload.poll_id)
                /\ polls[payload.poll_id].closed
                /\ StepOf(payload, senderKey) )
              => UNCHANGED Effects
         ]_vars

\* a second close was delivered while the first close awaits a put or the send
C4_Witness ==
    /\ console = "close:already"
    /\ tasks # <<>>

\* C5: a create with fewer than 2 or more than 8 options, or with an empty id
\* or question, changes no record; a create with an unseen id, a question and
\* 2 to 8 options inserts an open record without votes.
C5_CreateBounds ==
    [][ \A payload \in CreatePayloads, senderKey \in SenderKeys :
            StepOf(payload, senderKey) =>
                IF \/ payload.id = ""
                   \/ payload.question = ""
                   \/ ~payload.options.isArray
                   \/ Len(payload.options.items) < MinOptions
                   \/ Len(payload.options.items) > MaxOptionsDoc
                  THEN polls' = polls
                  ELSE ~Has(polls, payload.id) =>
                         /\ Has(polls', payload.id)
                         /\ polls'[payload.id].closed = FALSE
                         /\ polls'[payload.id].votes = EmptyMap
      ]_vars

\* C6: no step changes the question, the options or the creator of a record,
\* and a poll:create for an id that names a record changes no record (a step
\* that changes the poll store is not the handling of such a create).
C6_MetaImmutable ==
    [][ /\ \A id \in DOMAIN polls :
              /\ id \in DOMAIN polls'
              /\ polls'[id].meta = polls[id].meta
        /\ polls' # polls =>
              \A payload \in CreatePayloads, senderKey \in SenderKeys :
                 Has(polls, payload.id) => ~StepOf(payload, senderKey)
      ]_vars

\* a create reusing the id of a poll that has votes or is closed was dropped
C6_Witness ==
    /\ console = "create:exists"
    /\ \E id \in DOMAIN polls : polls[id].closed \/ DOMAIN polls[id].votes # {}

\* C7: the votes of a poll only grow, and not once the poll is closed (also
\* while the close is suspended); the votes of a closed poll number
\* result.total_votes.
C7_LedgerFrozen ==
    /\ [](\A id \in DOMAIN polls : polls[id].closed =>
              Cardinality(DOMAIN polls[id].votes) = polls[id].result.total_votes)
    /\ [][ \A id \in DOMAIN polls :
              /\ id \in DOMAIN polls'
              /\ \A s \in DOMAIN polls[id].votes :
                    /\ s \in DOMAIN polls'[id].votes
                    /\ polls'[id].votes[s] = polls[id].votes[s]
              /\ polls[id].closed => polls'[id].votes = polls[id].votes
         ]_vars

\* a vote reached a closed poll that has a vote, while its close is suspended
C7_Witness ==
    /\ console = "vote:closed"
    /\ \E n \in 1..Len(tasks) : DOMAIN polls[tasks[n].poll_id].votes # {}

\* C8: a poll:vote whose option_index is no integer in [0, options.length)
\* changes no record, so every recorded option is an integer index of the
\* poll's options.
C8_OptionIndexValid ==
    /\ [](\A id \in DOMAIN polls : \A s \in DOMAIN polls[id].votes :
              /\ IsInteger(polls[id].votes[s])
              /\ polls[id].votes[s].twice >= 0
              /\ polls[id].votes[s].twice < 2 * Len(polls[id].meta.options))
    /\ [][ \A payload \in VotePayloads, senderKey \in SenderKeys :
              ( /\ Has(polls, payload.poll_id)
                /\ ~IsArrayIndex(payload.option_index,
                                 Len(polls[payload.poll_id].meta.options))
                /\ StepOf(payload, senderKey) )
              => polls' = polls
         ]_vars

\* C9: a poll:vote or poll:close for an id without record has no effect, and
\* a record, when created, starts open, without votes and without result.
C9_UnknownPollDropped ==
    [][ /\ \A payload \in VotePayloads \cup ClosePayloads, senderKey \in SenderKeys :
              (~Has(polls, payload.poll_id) /\ StepOf(payload, senderKey))
              => UNCHANGED Effects
        /\ \A id \in PollIds :
              (~Has(polls, id) /\ Has(polls', id)) =>
                  /\ polls'[id].votes = EmptyMap
                  /\ polls'[id].closed = FALSE
                  /\ "result" \notin DOMAIN polls'[id]
      ]_vars

\* a vote for an id without record was dropped while another poll exists
C9_Witness ==
    /\ console = "vote:unknown"
    /\ polls # EmptyMap
    /\ DOMAIN polls # PollIds

\* the part of the commit order that holds of every peer: a put call, a
\* stored value, a broadcast or a suspended close of a poll implies the poll
\* is closed with that result, and the result put is called only once the
\* meta put has succeeded
CommitAfterClose ==
    /\ \A n \in 1..Len(tasks) :
          /\ HasResult(tasks[n].poll_id)
          /\ polls[tasks[n].poll_id].result = tasks[n].result
    /\ \A n \in 1..Len(outbox) :
          /\ HasResult(outbox[n].poll_id)
          /\ polls[outbox[n].poll_id].result = outbox[n].result
    /\ \A id \in PollIds :
          /\ (PutCount(PutKey(id, "meta")) > 0 \/ PutCount(PutKey(id, "result")) > 0)
                => HasResult(id)
          /\ PutCount(PutKey(id, "result")) > 0 => Has(store, PutKey(id, "meta"))
          /\ Has(store, PutKey(id, "meta")) => PutCount(PutKey(id, "meta")) > 0
          /\ Has(store, PutKey(id, "result")) => PutCount(PutKey(id, "result")) > 0

\* C10 as stated: the above, and a broadcast for a poll is sent only once
\* its result put has succeeded.
C10_CommitOrder ==
    /\ CommitAfterClose
    /\ \A id \in PollIds : SentCount(id) > 0 => Has(store, PutKey(id, "result"))

\* C10, amended: the above; on a peer with contractPut the meta put is called
\* in the step that closes the poll and a broadcast is sent only once the
\* result put has succeeded; a peer without contractPut gets no put call.
C10_CommitOrderAmended ==
    /\ CommitAfterClose
    /\ \A id \in PollIds :
          IF peer.hasContractPut
            THEN /\ HasResult(id) => PutCount(PutKey(id, "meta")) > 0
                 /\ SentCount(id) > 0 => Has(store, PutKey(id, "result"))
            ELSE puts = <<>>

\* a close went through both puts and the broadcast
C10_Witness ==
    \E id \in PollIds :
        /\ Has(store, PutKey(id, "result"))
        /\ SentCount(id) = 1
        /\ tasks = <<>>

\* both puts of the close of this poll have succeeded, with the serialised
\* meta and the serialised local result
Committed(poll_id) ==
    /\ Has(store, PutKey(poll_id, "meta"))
    /\ store[PutKey(poll_id, "meta")] = MetaJson(polls[poll_id])
    /\ Has(store, PutKey(poll_id, "result"))
    /\ store[PutKey(poll_id, "result")] = ResultJson(polls[poll_id].result)

\* one poll:result message for this poll was sent, carrying the poll's id,
\* question, options and local result
Announced(poll_id) ==
    /\ SentCount(poll_id) = 1
    /\ \A n \in 1..Len(outbox) :
          outbox[n].poll_id = poll_id =>
             /\ outbox[n].type = "poll:result"
             /\ outbox[n].channel = AttachedChannel
             /\ outbox[n].question = polls[poll_id].meta.question
             /\ outbox[n].options = polls[poll_id].meta.options
             /\ outbox[n].result = polls[poll_id].result

\* C11 as stated: when no put and no send fails, every accepted poll:close
\* leads to the meta and the result of the poll in the replicated state, the
\* result being the local one, and to exactly one poll:result message with
\* the poll's id, question, options and result.
C11_SuccessfulCommit ==
    \A id \in PollIds : HasResult(id) ~> (Committed(id) /\ Announced(id))

\* C11, amended: that holds of a peer with contractPut and sendSidechannel; a
\* peer without contractPut gets no write, a peer without sendSidechannel no
\* message, and the close still completes the part the peer supports. No poll
\* is ever announced twice.
C11_SuccessfulCommitAmended ==
    /\ \A id \in PollIds :
          HasResult(id) ~> /\ peer.hasContractPut => Committed(id)
                           /\ peer.hasSendSidechannel => Announced(id)
    /\ [](\A id \in PollIds : SentCount(id) <= 1)
    /\ [](~peer.hasContractPut => store = EmptyMap)
    /\ [](~peer.hasSendSidechannel => outbox = <<>>)

\* on a peer with both capabilities a close with votes was committed and
\* announced, and its handler has returned
C11_Witness ==
    /\ peer.hasContractPut
    /\ peer.hasSendSidechannel
    /\ tasks = <<>>
    /\ \E id \in PollIds :
          /\ HasResult(id)
          /\ polls[id].result.total_votes > 0
          /\ Committed(id)
          /\ Announced(id)

\* an _onClose call for this poll is suspended at an await
Pending(poll_id) == \E n \in 1..Len(tasks) : tasks[n].poll_id = poll_id

\* the contractPut calls made for this poll, in order
PutsOf(poll_id) ==
    SelectSeq(puts, LAMBDA c : c.key \in {PutKey(poll_id, "meta"), PutKey(poll_id, "result")})

\* C12: when the meta put or the result put of a close rejects, the poll
\* stays closed with the result it had, nothing is written or sent, and the
\* rejection is caught by the listener; once the close of a poll has ended,
\* no later step calls contractPut for that poll again, so each key is put at
\* most once and a later poll:close for the poll changes nothing.
C12_CommitFault ==
    /\ [][ /\ \A i \in 1..Len(tasks), id \in PollIds :
                 ( /\ tasks[i].poll_id = id
                   /\ tasks[i].at \in {"meta", "result"}
                   /\ AwaitRejects(i) ) =>
                    /\ polls' = polls
                    /\ HasResult(id)'
                    /\ polls'[id].result = tasks[i].result
                    /\ <<puts, store, outbox>>' = <<puts, store, outbox>>
                    /\ ~Pending(id)'
                    /\ ~unhandled'
           /\ \A id \in PollIds :
                 (HasResult(id) /\ ~Pending(id)) =>
                    /\ PutsOf(id)' = PutsOf(id)
                    /\ ~Pending(id)'
                    /\ polls'[id] = polls[id]
         ]_vars
    /\ [](\A id \in PollIds : Len(PutsOf(id)) <= 2 /\ PutCount(PutKey(id, "result")) <= 1)

\* the commit of a closed poll failed before its result was written, and a
\* later poll:close for a closed poll was then ignored
C12_Witness ==
    /\ console = "close:already"
    /\ errors > 0
    /\ tasks = <<>>
    /\ \E id \in PollIds :
          /\ HasResult(id)
          /\ PutsOf(id) # <<>>
          /\ ~Has(store, PutKey(id, "result"))

\* The outcome a valid event is to have: a create of an unused id with 2 to 8
\* options makes an open poll without votes; a vote with an integer index in
\* range, by a sender without a vote, on an open poll is recorded; a close of
\* an open poll closes it with the tally of its votes and, on a peer with
\* contractPut, starts its commit.
Applied(payload, senderKey) ==
    LET senderHex == SenderHexOf(senderKey)
    IN /\ ( /\ payload \in LongCreates
            /\ Len(payload.options.items) <= MaxOptionsDoc
            /\ ~Has(polls, payload.id) ) =>
              /\ DOMAIN polls' = DOMAIN polls \cup {payload.id}
              /\ polls'[payload.id].meta.question = payload.question
              /\ polls'[payload.id].meta.options = payload.options.items
              /\ polls'[payload.id].votes = EmptyMap
              /\ ~polls'[payload.id].closed
              /\ \A id \in DOMAIN polls : polls'[id] = polls[id]
       /\ ( /\ payload \in VotePayloads
            /\ Has(polls, payload.poll_id)
            /\ ~polls[payload.poll_id].closed
            /\ IsInteger(payload.option_index)
            /\ payload.option_index.twice >= 0
            /\ payload.option_index.twice < 2 * Len(polls[payload.poll_id].meta.options)
            /\ ~Has(polls[payload.poll_id].votes, senderHex) ) =>
              /\ DOMAIN polls' = DOMAIN polls
              /\ DOMAIN polls'[payload.poll_id].votes =
                    DOMAIN polls[payload.poll_id].votes \cup {senderHex}
              /\ polls'[payload.poll_id].votes[senderHex] = payload.option_index
              /\ \A id \in DOMAIN polls \ {payload.poll_id} : polls'[id] = polls[id]
       /\ ( /\ payload \in ClosePayloads
            /\ Has(polls, payload.poll_id)
            /\ ~polls[payload.poll_id].closed ) =>
              /\ DOMAIN polls' = DOMAIN polls
              /\ polls'[payload.poll_id].closed
              /\ "result" \in DOMAIN polls'[payload.poll_id]
              /\ polls'[payload.poll_id].votes = polls[payload.poll_id].votes
              /\ polls'[payload.poll_id].result.total_votes =
                    Cardinality(DOMAIN polls[payload.poll_id].votes)
              /\ peer.hasContractPut => Len(puts') = Len(puts) + 1
              /\ \A id \in DOMAIN polls \ {payload.poll_id} : polls'[id] = polls[id]

\* the premises of Applied: the event is a valid one in the current state
ValidEvent(payload, senderKey) ==
    \/ /\ payload \in LongCreates
       /\ Len(payload.options.items) <= MaxOptionsDoc
       /\ ~Has(polls, payload.id)
    \/ /\ payload \in VotePayloads
       /\ Has(polls, payload.poll_id)
       /\ ~polls[payload.poll_id].closed
       /\ IsInteger(payload.option_index)
       /\ payload.option_index.twice >= 0
       /\ payload.option_index.twice < 2 * Len(polls[payload.poll_id].meta.options)
       /\ ~Has(polls[payload.poll_id].votes, SenderHexOf(senderKey))
    \/ /\ payload \in ClosePayloads
       /\ Has(polls, payload.poll_id)
       /\ ~polls[payload.poll_id].closed

\* C13: a rejection raised in the handling of an event is caught by the
\* listener, which logs it and changes no poll; every event delivered after
\* a rejection is still handled, a valid one with its full outcome; and no
\* rejection is ever left without a handler.
C13_FailureIsolation ==
    /\ [][ /\ errors > 0 =>
                 \A payload \in CreatePayloads \cup VotePayloads \cup ClosePayloads,
                    senderKey \in SenderKeys :
                    (ValidEvent(payload, senderKey) /\ StepOf(payload, senderKey))
                    => Applied(payload, senderKey)
           /\ \A i \in 1..Len(tasks) :
                 AwaitRejects(i) => (errors' = errors + 1 /\ polls' = polls)
         ]_vars
    /\ [](unhandled = FALSE)

\* after a rejected commit of one poll a vote on another poll was recorded
C13_Witness ==
    /\ errors > 0
    /\ console = "vote:ok"
    /\ \E id \in PollIds : HasResult(id) /\ ~Has(store, PutKey(id, "result")) /\ ~Pending(id)

\* C14: a message on the attached channel whose payload is null, has no type
\* or has a type other than poll:create, poll:vote and poll:close (a
\* poll:result among them), and any message on another channel, changes no
\* poll, calls no contractPut and no sendSidechannel, and writes no console
\* line: a step that changes any of these is not the handling of such a
\* message.
C14_UnrecognizedDropped ==
    [][ (console' # console \/ Effects' # Effects) =>
           /\ \A payload \in OtherPayloads, senderKey \in SenderKeys :
                 ~StepOf(payload, senderKey)
           /\ \A ch \in Channels \ {AttachedChannel},
                 payload \in OtherChannelPayloads \cup OtherPayloads,
                 senderKey \in SenderKeys :
                 ~(Delivery /\ Listener(ch, payload, senderKey))
      ]_vars

\* two messages were delivered and neither left a trace
C14_Witness ==
    /\ delivered = 2
    /\ console = "attached"
    /\ polls = EmptyMap
    /\ puts = <<>>
    /\ outbox = <<>>

\* C15 as stated: the handling of an event begins only when the handling of
\* every earlier event, the commit of a close included, has finished.
C15_SequentialDispatch ==
    [][ delivered' # delivered => tasks = <<>> ]_vars

\* C15, amended: the listener does not wait for the commit of a close, so
\* later events are handled while it is suspended. Every change of a poll
\* record is made in the step that handles an event, before the handler's
\* first await; what runs after an await changes no record; a step changes
\* at most one record; and while the commit of a poll is suspended the poll
\* is closed and its record is changed by nothing.
C15_SequentialDispatchAmended ==
    [][ /\ delivered' = delivered => polls' = polls
        /\ Cardinality({id \in DOMAIN polls' : id \notin DOMAIN polls \/ polls'[id] # polls[id]}) <= 1
        /\ \A id \in PollIds :
              Pending(id) => (HasResult(id) /\ polls'[id] = polls[id])
      ]_vars

\* a vote for a poll was handled, and dropped, while the commit of that poll
\* was still suspended
C15_Witness ==
    /\ console = "vote:closed"
    /\ \E id \in DOMAIN polls : polls[id].closed
    /\ \A id \in DOMAIN polls : polls[id].closed => Pending(id)

\* the poll an event is about
TargetOf(payload) ==
    IF payload.type = "poll:create" THEN payload.id ELSE payload.poll_id

\* C16: while the close of a poll is suspended at one of its awaits, a
\* valid poll:create, poll:vote or poll:close for another poll has its full
\* outcome in the step that delivers it, and the suspended close is still
\* where it was.
C16_SlowCommitNoStall ==
    [][ tasks # <<>> =>
           \A payload \in LongCreates \cup VotePayloads \cup ClosePayloads,
              senderKey \in SenderKeys :
              ( /\ \E a \in PollIds \ {TargetOf(payload)} : Pending(a)
                /\ ValidEvent(payload, senderKey)
                /\ StepOf(payload, senderKey) ) =>
                 /\ Applied(payload, senderKey)
                 /\ \A n \in 1..Len(tasks) : n <= Len(tasks') /\ tasks'[n] = tasks[n]
      ]_vars

\* a vote on an open poll was recorded after the close of another poll had
\* begun and while its commit was still suspended
C16_Witness ==
    /\ console = "vote:ok"
    /\ \E a \in PollIds, b \in PollIds :
          /\ a # b
          /\ Pending(a)
          /\ Has(polls, b)
          /\ ~polls[b].closed
          /\ DOMAIN polls[b].votes # {}

\* C17: a poll record has a result exactly when it is closed; no step
\* removes a record, reopens a closed poll, or removes or changes the result
\* (tallies, total_votes, winner_index, winner_option) of a poll that has one.
C17_ClosedMonotonic ==
    /\ [](\A id \in DOMAIN polls : ("result" \in DOMAIN polls[id]) <=> polls[id].closed)
    /\ [][ \A id \in DOMAIN polls :
              /\ id \in DOMAIN polls'
              /\ polls[id].closed => polls'[id].closed
              /\ "result" \in DOMAIN polls[id] =>
                    /\ "result" \in DOMAIN polls'[id]
                    /\ polls'[id].result = polls[id].result
         ]_vars

\* a poll with votes was closed, its commit has ended, and a vote delivered
\* afterwards found it closed
C17_Witness ==
    /\ console = "vote:closed"
    /\ tasks = <<>>
    /\ \E id \in DOMAIN polls : HasResult(id) /\ polls[id].result.total_votes > 0

\* the last call of the host was getPoll / listPolls
GotPoll == "call" \in DOMAIN returned /\ returned.call = "getPoll"

GotList == "call" \in DOMAIN returned /\ returned.call = "listPolls"

\* C18: a call of getPoll or listPolls changes no poll and nothing else of
\* the state. getPoll(id) returns null exactly when this.polls has no record
\* for id; otherwise it returns the record's meta, total_votes equal to the
\* number of recorded voters, the record's closed flag, and a result that is
\* null exactly while the poll is open and the record's result once it is
\* closed. listPolls returns exactly the ids that have a record.
C18_QueryReadOnly ==
    /\ [][ (CallGetPoll \/ CallListPolls) =>
              <<polls, tasks, puts, store, outbox>>' = <<polls, tasks, puts, store, outbox>>
         ]_vars
    /\ [](GotPoll =>
            /\ (returned.value = Null) <=> ~Has(polls, returned.pollId)
            /\ Has(polls, returned.pollId) =>
                  LET poll == polls[returned.pollId]
                  IN /\ returned.value.meta = poll.meta
                     /\ returned.value.total_votes = Cardinality(DOMAIN poll.votes)
                     /\ returned.value.closed = poll.closed
                     /\ (returned.value.result = Null) <=> ~poll.closed
                     /\ poll.closed => returned.value.result = poll.result)
    /\ [](GotList => returned.value = DOMAIN polls)

\* getPoll was called for a closed poll with votes while another id had no
\* record
C18_Witness ==
    /\ GotPoll
    /\ returned.value # Null
    /\ returned.value.closed
    /\ returned.value.total_votes > 0
    /\ returned.value.result # Null
    /\ \E id \in PollIds : ~Has(polls, id)

\* on a peer with contractPut a poll:result message for a poll is in the
\* outbox only if both puts of the poll have succeeded, and a poll whose
\* close has ended without its result in the replicated state has none
GatedOnWrites ==
    peer.hasContractPut =>
       \A id \in PollIds :
          /\ SentCount(id) > 0 =>
                (Has(store, PutKey(id, "meta")) /\ Has(store, PutKey(id, "result")))
          /\ (HasResult(id) /\ ~Pending(id) /\ ~Has(store, PutKey(id, "result"))) =>
                SentCount(id) = 0

\* C19 as stated: the above, and on a peer without contractPut the message
\* of a closed poll has been sent.
C19_BroadcastGated ==
    /\ GatedOnWrites
    /\ ~peer.hasContractPut => \A id \in PollIds : HasResult(id) => SentCount(id) = 1

\* C19, amended: the above for a peer without contractPut that has
\* sendSidechannel; a peer without sendSidechannel sends nothing.
C19_BroadcastGatedAmended ==
    /\ GatedOnWrites
    /\ (~peer.hasContractPut /\ peer.hasSendSidechannel) =>
          \A id \in PollIds : HasResult(id) => SentCount(id) = 1
    /\ ~peer.hasSendSidechannel => outbox = <<>>

\* on a peer with both capabilities one poll went through its commit and was
\* announced, the commit of another failed and it was not
C19_Witness ==
    /\ peer.hasContractPut
    /\ peer.hasSendSidechannel
    /\ errors > 0
    /\ tasks = <<>>
    /\ \E a \in PollIds, b \in PollIds :
          /\ HasResult(a)
          /\ SentCount(a) = 0
          /\ HasResult(b)
          /\ SentCount(b) = 1

\* C20: whenever the replicated state holds a value under polls/<id>/result
\* it holds one under polls/<id>/meta, written in an earlier step; the poll
\* <id> is closed, the value under result is the serialisation of its own
\* result and the value under meta that of its own question and options.
C20_ResultWithMeta ==
    /\ [](\A id \in PollIds :
             Has(store, PutKey(id, "result")) =>
                /\ Has(store, PutKey(id, "meta"))
                /\ HasResult(id)
                /\ store[PutKey(id, "result")] = ResultJson(polls[id].result)
                /\ store[PutKey(id, "meta")] = MetaJson(polls[id]))
    /\ [][ \A id \in PollIds :
              (~Has(store, PutKey(id, "result")) /\ Has(store', PutKey(id, "result"))) =>
                 Has(store, PutKey(id, "meta"))
         ]_vars

\* the commits of two polls with different results were interleaved: one
\* went through, the other failed at its result put after its meta was
\* written
C20_Witness ==
    /\ errors > 0
    /\ \E a \in PollIds, b \in PollIds :
          /\ HasResult(a)
          /\ HasResult(b)
          /\ polls[a].result # polls[b].result
          /\ Has(store, PutKey(a, "result"))
          /\ Has(store, PutKey(b, "meta"))
          /\ ~Has(store, PutKey(b, "result"))
          /\ ~Pending(b)

====
